---- MODULE Spec2Model ----
(***************************************************************************)
(* EMG controller (roblox_emg_controller.py): the serial-reader thread     *)
(* (tracker), the Tk event queue, and the command classifier               *)
(* map_signal_to_controls that runs as a callback on the GUI thread.       *)
(*                                                                         *)
(* Time is counted in ticks of 0.05 s (the largest unit in which the       *)
(* code's 0.25 s, 0.5 s, 0.6 s and 2.0 s are whole numbers).  Every stored *)
(* timestamp t is kept relative to the current instant, as t - time.time() *)
(* (0 = now, -3 = 0.15 s ago), so current_time is 0 and the passing of     *)
(* time moves every stored timestamp back by one.  A timestamp is clamped  *)
(* at the longest duration the code compares it with (every older value    *)
(* gives the same result in that comparison); the ages of the entries of   *)
(* spike_times are followed up to MaxSpikeAge.                             *)
(* Signal values are whole ADC counts; the baseline average is kept in     *)
(* whole counts, rounded to nearest.                                       *)
(***************************************************************************)
EXTENDS Integers, Sequences, FiniteSets, TLC

\* ---------------------------------------------------------------- bounds
\* pending classifier callbacks in the Tk event queue
MaxQueue == 2
\* oldest age followed for an entry of spike_times (at least SPIKE_WINDOW)
MaxSpikeAge == 12
\* number of sample lines fed in the hold scenario
ScnSamples == 14
\* furthest a stored timestamp can lie ahead of a clock that was set back
MaxClockBack == 1

\* ------------------------------------------------------ program constants
SPIKE_WINDOW == 10
HOLD_DELAY == 5
HOLD_LOCK_DURATION == 12
CLEANUP_WINDOW == 40
STOP_SPIKES == 3
\* UPDATE_INTERVAL, 0.1 s: the device's sample period
UPDATE_INTERVAL == 2

None == "None"
\* value of a field that has not been assigned yet (hasattr is false); it is
\* outside the range of every timestamp and of every signal value
NoAttr == -1000
Keys == {"w", "a", "s", "d"}
Upper == [k \in Keys |-> CASE k = "w" -> "W" [] k = "a" -> "A" [] k = "s" -> "S" [] k = "d" -> "D"]

\* sample lines "envelope,rms,threshold,state" the device can send
EnvRest == 0
EnvFlex == 8
EnvValues == {EnvRest, EnvFlex}
ThrValues == {0, 10}
Lines == [env : EnvValues, thr : ThrValues, state : {0, 1}]
\* the device takes its first line with the muscle at rest
FirstLines == {l \in Lines : l.env = EnvRest}

VARIABLES
    \* main window and serial connection; ser_out is the last command written
    window_open, connected, running, ser_out,
    \* tracker state (written by the serial-reader thread)
    tracked_baseline, calibrated, hold_threshold,
    muscle_spiking, muscle_holding, prev_spike_state, prev_hold_state,
    \* number of "Calibration complete!" log lines scheduled
    calibration_logs,
    \* Tk event queue: pending map_signal_to_controls callbacks
    after_queue,
    \* controller state (GUI thread)
    controller_enabled, pressed_keys, current_direction, key_repeat_active,
    hold_key, indefinite_hold, pending_spike_count, first_spike_time,
    action_decided, hold_lock_time, spike_times,
    \* history: onsets registered since the last Stop and less than
    \* SPIKE_WINDOW ago (at most the last two)
    onset_hist,
    \* history: an enabled update has read the onset of the current tracker
    \* snapshot
    edge_seen,
    \* scenario clock and number of lines fed (used by SpecScenario only)
    scn_time, scn_fed,
    \* the last line read from the serial port, as text fields (used by
    \* SpecIngest only)
    rx_line,
    \* history: the envelope values of the samples accepted so far (used by
    \* SpecBaseline only)
    env_seen,
    \* the keyboard as the operating system sees it: the keys that are down,
    \* and for every key the position of its key-repeat thread (used by
    \* SpecKeyboard only)
    keys_down, repeat,
    \* history: a spike onset has been registered since the controller was
    \* last enabled (used by SpecReenable only)
    fresh_onset,
    \* the state of the visualizer program, emg_visualizer.py (used by
    \* SpecVisualizer only)
    viz,
    \* a second run of the program that is fed the same samples and the same
    \* operations, with its own invert_signal (used by SpecInvert only)
    twin

connVars == <<window_open, connected, running>>
scnVars == <<scn_time, scn_fed>>
kbdVars == <<keys_down, repeat>>
sideVars == <<kbdVars, fresh_onset, viz, twin>>
auxVars == <<scnVars, rx_line, env_seen, sideVars>>
trackerVars == <<tracked_baseline, calibrated, hold_threshold,
                 muscle_spiking, muscle_holding, prev_spike_state, prev_hold_state,
                 calibration_logs>>
keyVars == <<pressed_keys, current_direction, key_repeat_active>>
patternVars == <<hold_key, indefinite_hold, pending_spike_count, first_spike_time,
                 action_decided, hold_lock_time, spike_times, onset_hist>>
vars == <<connVars, ser_out, trackerVars, after_queue, controller_enabled,
          keyVars, patternVars, edge_seen, auxVars>>

\* ------------------------------------------------------------- helpers
Abs(x) == IF x < 0 THEN -x ELSE x

\* pct/100 * x, rounded to the nearest whole count as each floating-point
\* operation rounds its result to the nearest representable value
Scaled(x, pct) == (pct * x + 50) \div 100

\* a moving average that gives the new value twice the weight
Ema_fast(baseline, raw) == Scaled(baseline, 90) + Scaled(raw, 10)

\* 0.95 * baseline + 0.05 * raw: two rounded products and their sum
Ema(baseline, raw) == Scaled(baseline, 95) + Scaled(raw, 5)

\* the moving average without the relaxed-only condition of line 1051
TrackBaseline_always(baseline, raw, state) == Ema(baseline, raw)

\* lines 1051-1052: the baseline follows the envelope only when relaxed
TrackBaseline(baseline, raw, state) ==
    IF state = 0 THEN Ema(baseline, raw) ELSE baseline

\* threshold * HOLD_THRESHOLD_RATIO (0.4)
HoldThreshold(thr) == (2 * thr) \div 5

\* holding only above the hold threshold (> for >=)
Holding_strict(raw, baseline, hold_thr) ==
    IF hold_thr > 0 THEN Abs(raw - baseline) > hold_thr ELSE FALSE

\* (current_deviation >= hold_threshold) if hold_threshold > 0 else False
Holding(raw, baseline, hold_thr) ==
    IF hold_thr > 0 THEN Abs(raw - baseline) >= hold_thr ELSE FALSE

\* the window test with an entry of exactly the window's age kept (<= for <)
Prune_inclusive(times, current_time, window) ==
    SelectSeq(times, LAMBDA t : current_time - t <= window)

\* [t for t in times if current_time - t < window]
Prune(times, current_time, window) ==
    SelectSeq(times, LAMBDA t : current_time - t < window)

LastTwo(s) == IF Len(s) <= 2 THEN s ELSE SubSeq(s, Len(s) - 1, Len(s))

\* ------------------------------------------- controller state as a record
Tracker ==
    [tracked_baseline |-> tracked_baseline, calibrated |-> calibrated,
     hold_threshold |-> hold_threshold,
     muscle_spiking |-> muscle_spiking, muscle_holding |-> muscle_holding,
     prev_spike_state |-> prev_spike_state, prev_hold_state |-> prev_hold_state,
     calibration_logs |-> calibration_logs]

Ctl ==
    [pressed_keys |-> pressed_keys, current_direction |-> current_direction,
     key_repeat_active |-> key_repeat_active,
     hold_key |-> hold_key, indefinite_hold |-> indefinite_hold,
     pending_spike_count |-> pending_spike_count,
     first_spike_time |-> first_spike_time, action_decided |-> action_decided,
     hold_lock_time |-> hold_lock_time, spike_times |-> spike_times,
     onset_hist |-> onset_hist]

SetCtl(c) ==
    /\ pressed_keys' = c.pressed_keys
    /\ current_direction' = c.current_direction
    /\ key_repeat_active' = c.key_repeat_active
    /\ hold_key' = c.hold_key
    /\ indefinite_hold' = c.indefinite_hold
    /\ pending_spike_count' = c.pending_spike_count
    /\ first_spike_time' = c.first_spike_time
    /\ action_decided' = c.action_decided
    /\ hold_lock_time' = c.hold_lock_time
    /\ spike_times' = c.spike_times
    /\ onset_hist' = c.onset_hist

stop_key_repeat(c) == [c EXCEPT !.key_repeat_active = FALSE]

release_all_keys(c) ==
    [stop_key_repeat(c) EXCEPT !.pressed_keys = {}, !.current_direction = None]

start_key_repeat(c, key_char) ==
    [stop_key_repeat(c) EXCEPT !.key_repeat_active = TRUE]

\* press_key without the release loop of lines 829-835
press_key_keeps_others(c, key_char) ==
    IF key_char \in c.pressed_keys
    THEN c
    ELSE [start_key_repeat(c, key_char) EXCEPT
             !.pressed_keys = c.pressed_keys \cup {key_char},
             !.current_direction = Upper[key_char]]

press_key(c, key_char) ==
    LET kept == c.pressed_keys \cap {key_char}
    IN  IF key_char \in kept
        THEN [c EXCEPT !.pressed_keys = kept]
        ELSE [start_key_repeat(c, key_char) EXCEPT
                 !.pressed_keys = kept \cup {key_char},
                 !.current_direction = Upper[key_char]]

\* ------------------------------------------------ classifier, step by step
\* Stop only above three entries (> for >=)
StopTriggered_late(times) == Len(times) > STOP_SPIKES

\* line 932
StopTriggered(times) == Len(times) >= STOP_SPIKES

\* lines 933-940
StopAll(c) ==
    [release_all_keys(c) EXCEPT
        !.hold_key = None, !.indefinite_hold = FALSE,
        !.pending_spike_count = 0, !.action_decided = FALSE,
        !.spike_times = <<>>, !.onset_hist = <<>>]

\* a new spike that first releases the current command
RegisterSpike_releasing(c, t) ==
    LET r == release_all_keys(c)
        times == Prune(Append(r.spike_times, t), t, SPIKE_WINDOW)
    IN  [r EXCEPT
            !.spike_times = times,
            !.pending_spike_count = Len(times),
            !.action_decided = FALSE,
            !.first_spike_time = IF Len(times) = 1 THEN t ELSE @,
            !.onset_hist = LastTwo(Append(@, t))]

\* lines 928-929 and 943-947
RegisterSpike(c, t) ==
    LET times == Prune(Append(c.spike_times, t), t, SPIKE_WINDOW)
    IN  [c EXCEPT
            !.spike_times = times,
            !.pending_spike_count = Len(times),
            !.action_decided = FALSE,
            !.first_spike_time = IF Len(times) = 1 THEN t ELSE @,
            !.onset_hist = LastTwo(Append(@, t))]

\* the decision taken as soon as HOLD_DELAY has elapsed (>= for >)
DecisionDue_at_delay(c, t) ==
    /\ c.pending_spike_count > 0
    /\ ~c.action_decided
    /\ t - c.first_spike_time >= HOLD_DELAY

\* lines 952-956
DecisionDue(c, t) ==
    /\ c.pending_spike_count > 0
    /\ ~c.action_decided
    /\ t - c.first_spike_time > HOLD_DELAY

\* the decision table with Left and Right exchanged
DecisionKey_swapped(hold_active, count) ==
    IF hold_active
    THEN (IF count = 1 THEN "d" ELSE "a")
    ELSE (IF count = 1 THEN "w" ELSE "s")

\* lines 957-987: the key a decision commits
DecisionKey(hold_active, count) ==
    IF hold_active
    THEN (IF count = 1 THEN "a" ELSE "d")
    ELSE (IF count = 1 THEN "w" ELSE "s")

\* a decision that empties the spike window for Left/Right as well
Decide_clearing(c, t, hold_active) ==
    LET key == DecisionKey(hold_active, c.pending_spike_count)
        p == press_key(c, key)
    IN  [p EXCEPT !.hold_key = key, !.indefinite_hold = ~hold_active,
                  !.hold_lock_time = IF hold_active THEN t ELSE @,
                  !.action_decided = TRUE, !.pending_spike_count = 0,
                  !.spike_times = <<>>]

\* lines 957-987
Decide(c, t, hold_active) ==
    LET key == DecisionKey(hold_active, c.pending_spike_count)
        p == press_key(c, key)
    IN  IF hold_active
        THEN [p EXCEPT !.hold_key = key, !.indefinite_hold = FALSE,
                       !.hold_lock_time = t,
                       !.action_decided = TRUE, !.pending_spike_count = 0]
        ELSE [p EXCEPT !.hold_key = key, !.indefinite_hold = TRUE,
                       !.action_decided = TRUE, !.pending_spike_count = 0,
                       !.spike_times = <<>>]

\* the lock taken only after more than HOLD_LOCK_DURATION (> for >=)
LockDue_late(c, t, hold_active) ==
    /\ c.hold_key \in {"a", "d"}
    /\ ~c.indefinite_hold
    /\ c.hold_lock_time # NoAttr
    /\ hold_active
    /\ t - c.hold_lock_time > HOLD_LOCK_DURATION

\* lines 990-993
LockDue(c, t, hold_active) ==
    /\ c.hold_key \in {"a", "d"}
    /\ ~c.indefinite_hold
    /\ c.hold_lock_time # NoAttr
    /\ hold_active
    /\ t - c.hold_lock_time >= HOLD_LOCK_DURATION

\* line 994
Lock(c) == [c EXCEPT !.indefinite_hold = TRUE]

\* line 998
ReleaseDue(c, hold_just_released) ==
    /\ hold_just_released
    /\ c.hold_key \in {"a", "d"}
    /\ ~c.indefinite_hold

\* lines 999-1002
ReleaseHold(c) ==
    [release_all_keys(c) EXCEPT !.hold_key = None, !.action_decided = FALSE]

\* lines 1004-1006
Cleanup(c, t) == [c EXCEPT !.spike_times = Prune(@, t, CLEANUP_WINDOW)]

\* lines 906-911: the edges the update reads from the tracker
SpikeJustDetected(spiking, prev_spiking) == spiking /\ ~prev_spiking
HoldJustReleased(holding, prev_holding) == ~holding /\ prev_holding

\* lines 926-949
SpikeStep(c, t, spike_just_detected) ==
    IF spike_just_detected THEN RegisterSpike(c, t) ELSE c

\* the later steps with no decision taken while Left/Right is held unlocked
AfterSpike_deferring(c, t, hold_active, hold_just_released) ==
    LET free == ~(c.hold_key \in {"a", "d"} /\ ~c.indefinite_hold)
        c2 == IF free /\ DecisionDue(c, t) THEN Decide(c, t, hold_active) ELSE c
        c3 == IF LockDue(c2, t, hold_active) THEN Lock(c2) ELSE c2
        c4 == IF ReleaseDue(c3, hold_just_released) THEN ReleaseHold(c3) ELSE c3
    IN  Cleanup(c4, t)

\* lines 951-1006
AfterSpike(c, t, hold_active, hold_just_released) ==
    LET c2 == IF DecisionDue(c, t) THEN Decide(c, t, hold_active) ELSE c
        c3 == IF LockDue(c2, t, hold_active) THEN Lock(c2) ELSE c2
        c4 == IF ReleaseDue(c3, hold_just_released) THEN ReleaseHold(c3) ELSE c3
    IN  Cleanup(c4, t)

\* the update with the decision, lock and hold-release steps taken before
\* the spike is registered
Classify_decision_first(c, t, spiking, prev_spiking, holding, prev_holding) ==
    LET spike_just_detected == SpikeJustDetected(spiking, prev_spiking)
        c1 == AfterSpike(c, t, holding, HoldJustReleased(holding, prev_holding))
        c2 == SpikeStep(c1, t, spike_just_detected)
    IN  IF spike_just_detected /\ StopTriggered(c2.spike_times)
        THEN StopAll(c2)
        ELSE c2

\* lines 903-1006: one calibrated, enabled update
Classify(c, t, spiking, prev_spiking, holding, prev_holding) ==
    LET spike_just_detected == SpikeJustDetected(spiking, prev_spiking)
        c1 == SpikeStep(c, t, spike_just_detected)
    IN  IF spike_just_detected /\ StopTriggered(c1.spike_times)
        THEN StopAll(c1)
        ELSE AfterSpike(c1, t, holding, HoldJustReleased(holding, prev_holding))

\* ------------------------------------------------- emg_visualizer.py
\* the recognizer's time limits, in ticks of 0.05 s
VIZ_DOUBLE_WINDOW == 20
VIZ_COUNT_TIMEOUT == 30
VIZ_DISPLAY_TIME == 40

\* EMGVisualizer.__init__, lines 39-49; rx is the last sample processed and
\* seq alternates with every sample
VizInit ==
    [calibrated |-> FALSE, muscle_on |-> FALSE, prev_muscle_state |-> FALSE,
     spike_count |-> 0, current_command |-> "IDLE",
     last_spike_time |-> 0, command_display_time |-> 0,
     rx |-> [env |-> 0, thr |-> 0, state |-> 0], seq |-> 0]

\* a rising edge counts as the second of a pair whenever it comes within the
\* window, counted predecessor or not
IsDoubleSpike_uncounted(count, elapsed) == elapsed < VIZ_DOUBLE_WINDOW

\* line 270
IsDoubleSpike(count, elapsed) == count > 0 /\ elapsed < VIZ_DOUBLE_WINDOW

\* the display cleared as soon as 2.0 s have passed (>= for >)
DisplayExpired_at_limit(command, elapsed) ==
    command # "IDLE" /\ elapsed >= VIZ_DISPLAY_TIME

\* line 290
DisplayExpired(command, elapsed) ==
    command # "IDLE" /\ elapsed > VIZ_DISPLAY_TIME

\* update_plot, lines 246-295: one sample line, read at time t
VizUpdate(v, line, t) ==
    LET is_calibrated == v.calibrated \/ line.thr > 0
        on == line.state > 0
        v1 == IF is_calibrated /\ on /\ ~v.prev_muscle_state
              THEN IF IsDoubleSpike(v.spike_count, t - v.last_spike_time)
                   THEN [v EXCEPT !.current_command = "DOWN",
                                  !.command_display_time = t,
                                  !.spike_count = 0, !.last_spike_time = t]
                   ELSE [v EXCEPT !.current_command = "UP",
                                  !.command_display_time = t,
                                  !.spike_count = 1, !.last_spike_time = t]
              ELSE v
        v2 == IF v1.spike_count > 0 /\ t - v1.last_spike_time > VIZ_COUNT_TIMEOUT
              THEN [v1 EXCEPT !.spike_count = 0] ELSE v1
        v3 == IF DisplayExpired(v2.current_command, t - v2.command_display_time)
              THEN [v2 EXCEPT !.current_command = "IDLE"] ELSE v2
    IN  [v3 EXCEPT !.calibrated = is_calibrated, !.muscle_on = on,
                   !.prev_muscle_state = on,
                   !.rx = line, !.seq = 1 - v.seq]

\* ------------------------------------------------------------------ Init
Init ==
    /\ window_open = TRUE /\ connected = FALSE /\ running = FALSE
    /\ ser_out = None
    /\ tracked_baseline = NoAttr
    /\ calibrated = FALSE /\ hold_threshold = 0 /\ calibration_logs = 0
    /\ muscle_spiking = FALSE /\ muscle_holding = FALSE
    /\ prev_spike_state = FALSE /\ prev_hold_state = FALSE
    /\ after_queue = 0
    /\ controller_enabled = FALSE
    /\ pressed_keys = {} /\ current_direction = None
    /\ key_repeat_active = FALSE
    /\ hold_key = None /\ indefinite_hold = FALSE
    /\ pending_spike_count = 0 /\ first_spike_time = -(HOLD_DELAY + 1)
    /\ action_decided = FALSE /\ hold_lock_time = NoAttr
    /\ spike_times = <<>>
    /\ onset_hist = <<>> /\ edge_seen = FALSE
    /\ scn_time = 0 /\ scn_fed = 0
    /\ rx_line = <<>> /\ env_seen = {}
    /\ keys_down = {} /\ repeat = [k \in Keys |-> "none"]
    /\ fresh_onset = FALSE
    /\ viz = VizInit
    /\ twin = [invert_signal |-> FALSE, envelope |-> 0,
               tr |-> Tracker, ctl |-> Ctl]

\* --------------------------------------------------------------- actions
\* time.time() advances by one tick: every stored timestamp is one tick older
Older(t, horizon) ==
    IF t = NoAttr THEN NoAttr ELSE IF t - 1 < -horizon THEN -horizon ELSE t - 1

OlderAll(times, horizon) == [i \in DOMAIN times |-> Older(times[i], horizon)]

\* Advance on a controller record, as the second run of SpecInvert applies it
Aged(c) ==
    [c EXCEPT
        !.first_spike_time = Older(@, HOLD_DELAY + 1),
        !.hold_lock_time = Older(@, HOLD_LOCK_DURATION),
        !.spike_times = OlderAll(@, MaxSpikeAge),
        !.onset_hist = Prune(OlderAll(@, SPIKE_WINDOW), 0, SPIKE_WINDOW)]

Advance ==
    /\ window_open
    /\ first_spike_time' = Older(first_spike_time, HOLD_DELAY + 1)
    /\ hold_lock_time' = Older(hold_lock_time, HOLD_LOCK_DURATION)
    /\ spike_times' = OlderAll(spike_times, MaxSpikeAge)
    /\ onset_hist' = Prune(OlderAll(onset_hist, SPIKE_WINDOW), 0, SPIKE_WINDOW)
    /\ UNCHANGED <<connVars, ser_out, trackerVars, after_queue,
                   controller_enabled, keyVars, hold_key, indefinite_hold,
                   pending_spike_count, action_decided, edge_seen>>

Tick == Advance /\ UNCHANGED auxVars

\* calibration completing at the first sample, whatever its threshold
CalibrationCompletes_any_sample(thr, is_calibrated) == ~is_calibrated

\* line 1061
CalibrationCompletes(thr, is_calibrated) == thr > 0 /\ ~is_calibrated

\* lines 1055-1058: the envelope shown in the window
Displayed(baseline, raw, invert) == IF invert THEN 2 * baseline - raw ELSE raw

\* a tracker that works on the envelope as shown instead of the raw one
Track_on_display(tr, line, invert) ==
    LET first == IF tr.tracked_baseline = NoAttr THEN line.env ELSE tr.tracked_baseline
        raw == Displayed(first, line.env, invert)
        seeded == IF tr.tracked_baseline = NoAttr THEN raw ELSE tr.tracked_baseline
        baseline == TrackBaseline(seeded, raw, line.state)
        completes == CalibrationCompletes(line.thr, tr.calibrated)
        set_thr == IF completes THEN HoldThreshold(line.thr) ELSE tr.hold_threshold
        hold_thr == IF line.thr > 0 THEN HoldThreshold(line.thr) ELSE set_thr
    IN  [tracked_baseline |-> baseline,
         calibrated |-> (tr.calibrated \/ completes),
         calibration_logs |-> IF completes THEN tr.calibration_logs + 1
                              ELSE tr.calibration_logs,
         hold_threshold |-> hold_thr,
         prev_spike_state |-> tr.muscle_spiking,
         prev_hold_state |-> tr.muscle_holding,
         muscle_spiking |-> (line.state > 0),
         muscle_holding |-> Holding(raw, baseline, hold_thr)]

\* lines 1048-1086: ReadLine's tracker update on a tracker record, as the
\* second run of SpecInvert applies it (invert_signal enters at lines
\* 1055-1058 only, see Displayed)
Track(tr, line, invert) ==
    LET seeded == IF tr.tracked_baseline = NoAttr THEN line.env ELSE tr.tracked_baseline
        baseline == TrackBaseline(seeded, line.env, line.state)
        completes == CalibrationCompletes(line.thr, tr.calibrated)
        set_thr == IF completes THEN HoldThreshold(line.thr) ELSE tr.hold_threshold
        hold_thr == IF line.thr > 0 THEN HoldThreshold(line.thr) ELSE set_thr
    IN  [tracked_baseline |-> baseline,
         calibrated |-> (tr.calibrated \/ completes),
         calibration_logs |-> IF completes THEN tr.calibration_logs + 1
                              ELSE tr.calibration_logs,
         hold_threshold |-> hold_thr,
         prev_spike_state |-> tr.muscle_spiking,
         prev_hold_state |-> tr.muscle_holding,
         muscle_spiking |-> (line.state > 0),
         muscle_holding |-> Holding(line.env, baseline, hold_thr)]

\* serial_read_loop, lines 1039-1116: one EMG line "env,rms,thr,state"
ReadLine(line) ==
    /\ running /\ connected /\ window_open
    /\ after_queue < MaxQueue
    /\ LET seeded == IF tracked_baseline = NoAttr THEN line.env ELSE tracked_baseline
           baseline == TrackBaseline(seeded, line.env, line.state)
           completes == CalibrationCompletes(line.thr, calibrated)
           set_thr == IF completes THEN HoldThreshold(line.thr) ELSE hold_threshold
           hold_thr == IF line.thr > 0 THEN HoldThreshold(line.thr) ELSE set_thr
       IN  /\ tracked_baseline' = baseline
           /\ calibrated' = (calibrated \/ completes)
           /\ calibration_logs' = IF completes THEN calibration_logs + 1
                                  ELSE calibration_logs
           /\ hold_threshold' = hold_thr
           /\ prev_spike_state' = muscle_spiking
           /\ prev_hold_state' = muscle_holding
           /\ muscle_spiking' = (line.state > 0)
           /\ muscle_holding' = Holding(line.env, baseline, hold_thr)
    /\ after_queue' = IF controller_enabled THEN after_queue + 1 ELSE after_queue
    /\ edge_seen' = FALSE
    /\ UNCHANGED <<connVars, ser_out, controller_enabled, keyVars, patternVars>>

DeviceLines == IF tracked_baseline = NoAttr THEN FirstLines ELSE Lines

serial_read_loop == \E line \in DeviceLines : ReadLine(line) /\ UNCHANGED auxVars

\* time.time() as read at line 903
current_time == 0

\* the gate without the calibration check
ClassifierGate_enabled_only(enabled, is_calibrated) == enabled

\* lines 893-901: the update goes on only when enabled and calibrated
ClassifierGate(enabled, is_calibrated) == enabled /\ is_calibrated

\* map_signal_to_controls, run from the Tk event queue
map_signal_to_controls_step ==
    /\ window_open
    /\ after_queue > 0
    /\ after_queue' = after_queue - 1
    /\ IF ClassifierGate(controller_enabled, calibrated)
       THEN SetCtl(Classify(Ctl, current_time, muscle_spiking, prev_spike_state,
                            muscle_holding, prev_hold_state))
       ELSE UNCHANGED <<keyVars, patternVars>>
    /\ edge_seen' = (edge_seen \/ (controller_enabled
                        /\ SpikeJustDetected(muscle_spiking, prev_spike_state)))
    /\ UNCHANGED <<connVars, ser_out, trackerVars, controller_enabled>>

map_signal_to_controls == map_signal_to_controls_step /\ UNCHANGED auxVars

\* lines 623-675
connect ==
    /\ window_open /\ ~connected
    /\ connected' = TRUE
    /\ running' = TRUE
    /\ UNCHANGED <<window_open, ser_out, trackerVars, after_queue,
                   controller_enabled, keyVars, patternVars, edge_seen, auxVars>>

\* lines 677-707; toggle_controller's disable branch is lines 727-735
disconnect_step ==
    /\ window_open /\ connected
    /\ running' = FALSE
    /\ SetCtl(IF controller_enabled
              THEN release_all_keys(release_all_keys(Ctl))
              ELSE release_all_keys(Ctl))
    /\ controller_enabled' = FALSE
    /\ connected' = FALSE
    /\ UNCHANGED <<window_open, ser_out, trackerVars, after_queue, edge_seen>>

disconnect == disconnect_step /\ UNCHANGED auxVars

\* a disable that leaves the keys as they are
toggle_controller_step_keeping_keys(answer) ==
    /\ window_open /\ connected
    /\ IF ~controller_enabled
       THEN calibrated \/ answer
       ELSE TRUE
    /\ controller_enabled' = ~controller_enabled
    /\ SetCtl(Ctl)
    /\ UNCHANGED <<connVars, ser_out, trackerVars, after_queue, edge_seen>>

\* the Enable/Disable button (active while connected); answer is the reply to
\* the "Not Calibrated" question
toggle_controller_step(answer) ==
    /\ window_open /\ connected
    /\ IF ~controller_enabled
       THEN /\ calibrated \/ answer
            /\ controller_enabled' = TRUE
            /\ SetCtl(Ctl)
       ELSE /\ controller_enabled' = FALSE
            /\ SetCtl(release_all_keys(Ctl))
    /\ UNCHANGED <<connVars, ser_out, trackerVars, after_queue, edge_seen>>

toggle_controller(answer) == toggle_controller_step(answer) /\ UNCHANGED auxVars

\* lines 747-763 and 765-775: write a command to the device
SendCommand(cmd) ==
    /\ window_open /\ connected
    /\ ser_out' = cmd
    /\ UNCHANGED <<connVars, trackerVars, after_queue, controller_enabled,
                   keyVars, patternVars, edge_seen, auxVars>>

request_calibration == SendCommand("CALIBRATE")

reset_calibration == SendCommand("RESET")

\* lines 1202-1207
on_closing_step ==
    /\ window_open
    /\ window_open' = FALSE
    /\ running' = FALSE
    /\ connected' = FALSE
    /\ controller_enabled' = FALSE
    /\ SetCtl(release_all_keys(Ctl))
    /\ UNCHANGED <<ser_out, trackerVars, after_queue, edge_seen>>

on_closing == on_closing_step /\ UNCHANGED auxVars

Next ==
    \/ Tick
    \/ serial_read_loop
    \/ map_signal_to_controls
    \/ connect
    \/ disconnect
    \/ \E answer \in BOOLEAN : toggle_controller(answer)
    \/ on_closing

Spec == Init /\ [][Next]_vars

\* the schedules in which the GUI thread keeps up with the reader thread:
\* the callback of a sample runs before the next sample is read
serial_read_loop_in_step == after_queue = 0 /\ serial_read_loop

NextInStep ==
    \/ Tick
    \/ serial_read_loop_in_step
    \/ map_signal_to_controls
    \/ connect
    \/ disconnect
    \/ \E answer \in BOOLEAN : toggle_controller(answer)
    \/ on_closing

SpecInStep == Init /\ [][NextInStep]_vars

\* ------------------------------------------------- the hold scenario
\* Lines arrive every UPDATE_INTERVAL and each callback runs as soon as its
\* line is read.  Line 0 (t = -0.10) calibrates at rest, line 1 (t = 0.00)
\* carries the spike onset, every later line finds the muscle held and
\* carries no further onset.
ScnLines ==
    IF scn_fed = 0 THEN {l \in Lines : l.env = EnvRest /\ l.thr > 0 /\ l.state = 0}
    ELSE IF scn_fed = 1 THEN {l \in Lines : l.thr > 0 /\ l.state = 1}
    ELSE {l \in Lines : l.env = EnvFlex /\ l.thr > 0
                          /\ (l.state = 1 => muscle_spiking)}

\* the line due at the current instant has been read and its callback run
ScnSettled == scn_fed > scn_time \div UPDATE_INTERVAL /\ after_queue = 0

ScnEnable ==
    /\ ~controller_enabled /\ scn_fed <= 1
    /\ toggle_controller(TRUE)

ScnLine ==
    /\ scn_fed < ScnSamples
    /\ scn_time = UPDATE_INTERVAL * scn_fed
    /\ after_queue = 0
    /\ scn_fed >= 1 => controller_enabled
    /\ \E line \in ScnLines : ReadLine(line)
    /\ scn_fed' = scn_fed + 1
    /\ scn_time' = scn_time
    /\ UNCHANGED <<rx_line, env_seen, sideVars>>

ScnTick ==
    /\ ScnSettled
    /\ Advance
    /\ scn_time' = scn_time + 1
    /\ scn_fed' = scn_fed
    /\ UNCHANGED <<rx_line, env_seen, sideVars>>

NextScenario ==
    \/ connect
    \/ ScnEnable
    \/ ScnLine
    \/ map_signal_to_controls
    \/ ScnTick

SpecScenario == Init /\ [][NextScenario]_vars

\* ------------------------------------------------ lines as text fields
\* A received line, split at the commas (line 1021), is a sequence of text
\* fields.  float() reads a decimal number, and also "nan" and "inf".
NumberText == {"0", "1", "8", "10", "20"}
NonFiniteText == {"nan", "inf"}

FloatValue ==
    [t \in NumberText |->
        CASE t = "0" -> 0 [] t = "1" -> 1 [] t = "8" -> 8
          [] t = "10" -> 10 [] t = "20" -> 20]

\* float(text) raises no ValueError
ParsesAsFloat(text) == text \in NumberText \cup NonFiniteText

\* the check without the float() of the rms field
is_emg_data_unchecked_rms(parts) ==
    Len(parts) = 4 /\ \A i \in {1, 3, 4} : ParsesAsFloat(parts[i])

\* lines 1019-1031
is_emg_data(parts) ==
    Len(parts) = 4 /\ \A i \in 1..4 : ParsesAsFloat(parts[i])

\* lines 1043-1046: envelope, threshold and state of an EMG line (the rms
\* value is stored and not used)
Sample(parts) ==
    [env |-> FloatValue[parts[1]], thr |-> FloatValue[parts[3]],
     state |-> FloatValue[parts[4]]]

\* the lines fed: well-formed samples, samples with a non-finite rms value,
\* lines with a field that is no number, and lines of one, three and five
\* fields
WellFormedLines ==
    {<<e, "0", t, st>> : e \in {"0", "8", "20"}, t \in {"0", "10"}, st \in {"0", "1"}}

NonFiniteLines ==
    {<<"8", "nan", "10", "1">>, <<"0", "inf", "10", "0">>, <<"20", "nan", "0", "1">>}

MalformedLines ==
    {<<"abc", "0", "10", "1">>, <<"8", "abc", "10", "1">>,
     <<"8", "0", "abc", "1">>, <<"8", "0", "10", "abc">>,
     <<"EMG ready">>, <<"8", "0", "10">>, <<"8", "0", "10", "1", "0">>}

RawLines == WellFormedLines \cup NonFiniteLines \cup MalformedLines

\* serial_read_loop, lines 1013-1116: one received line
ReadRaw(parts) ==
    /\ rx_line' = parts
    /\ IF is_emg_data(parts)
       THEN ReadLine(Sample(parts))
       ELSE /\ running /\ connected /\ window_open
            /\ UNCHANGED <<connVars, ser_out, trackerVars, after_queue,
                           controller_enabled, keyVars, patternVars, edge_seen>>
    /\ UNCHANGED <<scnVars, sideVars>>

serial_read_raw == \E parts \in RawLines : ReadRaw(parts) /\ UNCHANGED env_seen

NextIngest ==
    \/ connect
    \/ serial_read_raw
    \/ map_signal_to_controls
    \/ \E answer \in BOOLEAN : toggle_controller(answer)

SpecIngest == Init /\ [][NextIngest]_vars

\* ------------------------------------------------ a clock that is set back
\* time.time() is the wall clock: it can be set back between two updates.
\* Every stored timestamp then lies one tick later relative to the clock.
\* The step is taken when every stored timestamp is younger than the age at
\* which it is clamped, so that every age is followed exactly.
Later(t) == IF t = NoAttr THEN NoAttr ELSE t + 1

Exact(t, horizon) == t > -horizon /\ t < MaxClockBack

ClockSetBack ==
    /\ window_open
    /\ Exact(first_spike_time, HOLD_DELAY + 1)
    /\ hold_lock_time = NoAttr \/ Exact(hold_lock_time, HOLD_LOCK_DURATION)
    /\ \A i \in DOMAIN spike_times : Exact(spike_times[i], MaxSpikeAge)
    /\ first_spike_time' = Later(first_spike_time)
    /\ hold_lock_time' = Later(hold_lock_time)
    /\ spike_times' = [i \in DOMAIN spike_times |-> Later(spike_times[i])]
    /\ onset_hist' = [i \in DOMAIN onset_hist |-> Later(onset_hist[i])]
    /\ UNCHANGED <<connVars, ser_out, trackerVars, after_queue,
                   controller_enabled, keyVars, hold_key, indefinite_hold,
                   pending_spike_count, action_decided, edge_seen, auxVars>>

NextClock ==
    \/ NextInStep
    \/ ClockSetBack

SpecClock == Init /\ [][NextClock]_vars

\* the program with the Calibrate and Reset buttons in use; the calibration
\* state does not depend on the clock, which stands still here
NextCalibration ==
    \/ connect
    \/ disconnect
    \/ serial_read_loop
    \/ map_signal_to_controls
    \/ \E answer \in BOOLEAN : toggle_controller(answer)
    \/ on_closing
    \/ request_calibration
    \/ reset_calibration

SpecCalibration == Init /\ [][NextCalibration]_vars

\* ------------------------------------------- the baseline and its range
\* Samples with four envelope values are read and the envelope values
\* accepted so far are recorded.
BaselineLines ==
    {<<e, "0", t, st>> : e \in {"0", "8", "10", "20"}, t \in {"0", "10"},
                         st \in {"0", "1"}}

serial_read_tracked ==
    \E parts \in BaselineLines :
        /\ ReadRaw(parts)
        /\ env_seen' = env_seen \cup {Sample(parts).env}

NextBaseline ==
    \/ connect
    \/ serial_read_tracked

SpecBaseline == Init /\ [][NextBaseline]_vars

\* ------------------------------------------------ samples keep arriving
\* The controller is connected and enabled and stays so.  The reader thread
\* loops while running (lines 1010-1013), the Tk main loop runs every
\* scheduled callback, and time passes: each of the three is taken again and
\* again.
LiveEnable == ~controller_enabled /\ toggle_controller(TRUE)

NextLive ==
    \/ connect
    \/ LiveEnable
    \/ serial_read_loop_in_step
    \/ map_signal_to_controls
    \/ Tick

Fairness ==
    /\ WF_vars(Tick)
    /\ WF_vars(serial_read_loop_in_step)
    /\ WF_vars(map_signal_to_controls)

SpecLive == Init /\ [][NextLive]_vars /\ Fairness

\* ---------------------------------------------- the keys at the keyboard
\* pynput's keyboard_controller holds the state of the keys.  A GUI-thread
\* operation releases at the keyboard every key it takes out of pressed_keys
\* (lines 816, 832) and presses the key it puts in (line 840), for which it
\* starts a key-repeat thread (lines 847, 849-870).
KeyboardFollows ==
    LET released == pressed_keys \ pressed_keys'
        added == pressed_keys' \ pressed_keys
    IN  /\ keys_down' = (keys_down \ released) \cup added
        /\ repeat' = [k \in Keys |->
                         IF k \in added /\ repeat[k] = "none"
                         THEN "loop" ELSE repeat[k]]

notKbdVars == <<scnVars, rx_line, env_seen, fresh_onset, viz, twin>>

kbd_map_signal_to_controls ==
    map_signal_to_controls_step /\ KeyboardFollows /\ UNCHANGED notKbdVars

kbd_toggle_controller(answer) ==
    toggle_controller_step(answer) /\ KeyboardFollows /\ UNCHANGED notKbdVars

\* repeat_loop, lines 858-867: the loop test and the release that follows it
repeat_loop_release(k) ==
    /\ repeat[k] = "loop"
    /\ IF key_repeat_active /\ k \in pressed_keys
       THEN /\ keys_down' = keys_down \ {k}
            /\ repeat' = [repeat EXCEPT ![k] = "gap"]
       ELSE /\ keys_down' = keys_down
            /\ repeat' = [repeat EXCEPT ![k] = "none"]
    /\ UNCHANGED <<connVars, ser_out, trackerVars, after_queue, controller_enabled,
                   keyVars, patternVars, edge_seen, notKbdVars>>

\* ... and the press after the gap of 10 ms
repeat_loop_press(k) ==
    /\ repeat[k] = "gap"
    /\ keys_down' = keys_down \cup {k}
    /\ repeat' = [repeat EXCEPT ![k] = "loop"]
    /\ UNCHANGED <<connVars, ser_out, trackerVars, after_queue, controller_enabled,
                   keyVars, patternVars, edge_seen, notKbdVars>>

\* the hold scenario, with the Enable/Disable button free and the key-repeat
\* threads running
NextKeyboard ==
    \/ connect
    \/ \E answer \in BOOLEAN : kbd_toggle_controller(answer)
    \/ ScnLine
    \/ kbd_map_signal_to_controls
    \/ ScnTick
    \/ \E k \in Keys : repeat_loop_release(k)
    \/ \E k \in Keys : repeat_loop_press(k)

SpecKeyboard == Init /\ [][NextKeyboard]_vars

\* ------------------------------------------------- the visualizer alone
mainVars == <<connVars, ser_out, trackerVars, after_queue, controller_enabled,
              keyVars, patternVars, edge_seen>>
notVizVars == <<scnVars, rx_line, env_seen, kbdVars, fresh_onset, twin>>

VizLines == {l \in Lines : l.env = EnvRest}

\* update_plot processes one sample line
viz_update_plot ==
    /\ \E line \in VizLines : viz' = VizUpdate(viz, line, current_time)
    /\ UNCHANGED <<mainVars, notVizVars>>

\* time.time() - start_time advances by one tick
viz_tick ==
    /\ viz' = [viz EXCEPT
                  !.last_spike_time = Older(@, VIZ_COUNT_TIMEOUT + 1),
                  !.command_display_time = Older(@, VIZ_DISPLAY_TIME + 1)]
    /\ UNCHANGED <<mainVars, notVizVars>>

NextVisualizer ==
    \/ viz_update_plot
    \/ viz_tick

SpecVisualizer == Init /\ [][NextVisualizer]_vars

\* ------------------------------------- disabling and enabling again
\* The program with every callback run before the next sample, and a record
\* of whether a spike onset has been registered since the controller was
\* last enabled.
notFreshVars == <<scnVars, rx_line, env_seen, kbdVars, viz, twin>>

re_map_signal_to_controls ==
    /\ map_signal_to_controls_step
    /\ fresh_onset' =
           (fresh_onset \/ (/\ ClassifierGate(controller_enabled, calibrated)
                            /\ SpikeJustDetected(muscle_spiking, prev_spike_state)))
    /\ UNCHANGED notFreshVars

re_toggle_controller(answer) ==
    toggle_controller_step(answer) /\ fresh_onset' = FALSE /\ UNCHANGED notFreshVars

re_disconnect ==
    disconnect_step /\ fresh_onset' = FALSE /\ UNCHANGED notFreshVars

NextReenable ==
    \/ Tick
    \/ serial_read_loop_in_step
    \/ re_map_signal_to_controls
    \/ connect
    \/ re_disconnect
    \/ \E answer \in BOOLEAN : re_toggle_controller(answer)

SpecReenable == Init /\ [][NextReenable]_vars

\* ------------------------------------------------- two runs, one inverted
\* The program's own variables are the run in which invert_signal keeps its
\* initial value False (line 77), where the displayed envelope is the raw
\* one.  twin is a second run: every sample and every operation is applied to
\* both, and toggle_invert sets invert_signal in the second run only.
notTwinVars == <<scnVars, rx_line, env_seen, kbdVars, fresh_onset, viz>>

\* the samples of the two runs: the muscle at rest before and after the
\* device has a threshold, a contraction below the device's spike level and
\* one above it; the baseline drifts by at most MaxDrift
MaxDrift == 1
InvertLines ==
    {l \in {[env |-> 0, thr |-> 0, state |-> 0],
            [env |-> 0, thr |-> 10, state |-> 0],
            [env |-> 20, thr |-> 10, state |-> 0],
            [env |-> 20, thr |-> 10, state |-> 1]} :
        (l.env = 20 /\ l.state = 0) =>
            (tracked_baseline # NoAttr /\ tracked_baseline < MaxDrift)}

\* lines 737-745
toggle_invert ==
    /\ window_open
    /\ twin' = [twin EXCEPT !.invert_signal = ~@]
    /\ UNCHANGED <<mainVars, notTwinVars>>

inv_serial_read_loop ==
    /\ after_queue = 0
    /\ \E line \in InvertLines :
        /\ ReadLine(line)
        /\ LET tr == Track(twin.tr, line, twin.invert_signal)
           IN  twin' = [twin EXCEPT
                   !.tr = tr,
                   !.envelope = Displayed(tr.tracked_baseline, line.env,
                                          twin.invert_signal)]
    /\ UNCHANGED notTwinVars

inv_map_signal_to_controls ==
    /\ map_signal_to_controls_step
    /\ twin' = [twin EXCEPT !.ctl =
           IF ClassifierGate(controller_enabled, twin.tr.calibrated)
           THEN Classify(@, current_time,
                         twin.tr.muscle_spiking, twin.tr.prev_spike_state,
                         twin.tr.muscle_holding, twin.tr.prev_hold_state)
           ELSE @]
    /\ UNCHANGED notTwinVars

\* the controller is enabled in both runs and stays so
inv_toggle_controller ==
    /\ ~controller_enabled
    /\ toggle_controller_step(TRUE)
    /\ UNCHANGED <<twin, notTwinVars>>

inv_tick ==
    /\ Advance
    /\ twin' = [twin EXCEPT !.ctl = Aged(@)]
    /\ UNCHANGED notTwinVars

NextInvert ==
    \/ connect
    \/ toggle_invert
    \/ inv_serial_read_loop
    \/ inv_map_signal_to_controls
    \/ inv_toggle_controller
    \/ inv_tick

SpecInvert == Init /\ [][NextInvert]_vars

TypeOK ==
    /\ first_spike_time \in (-(HOLD_DELAY + 1))..0
    /\ pressed_keys \subseteq Keys
    /\ hold_key \in Keys \cup {None}
    /\ pending_spike_count \in 0..2
    /\ after_queue \in 0..MaxQueue

\* ---------------------------------------------------- steps, as actions
\* a run of map_signal_to_controls (the only step that takes a callback
\* off the queue)
MapStep == after_queue' = after_queue - 1

\* ... that gets past the enabled and calibrated checks
ClassifierRuns == MapStep /\ controller_enabled /\ calibrated

\* ... and registers a spike onset
Registers == ClassifierRuns /\ muscle_spiking /\ ~prev_spike_state

\* the pending count the decision branch sees in this update
DecisionCount ==
    IF Registers
    THEN Len(Prune(Append(spike_times, current_time), current_time, SPIKE_WINDOW))
    ELSE pending_spike_count

\* ... and commits a decision
Commits == ClassifierRuns /\ action_decided' /\ (Registers \/ ~action_decided)

\* a line is processed while the controller is enabled
ReadStep == after_queue' = after_queue + 1

\* a line is read and accepted as a sample (the line is rx_line'); a read
\* that changes nothing at all is a stuttering step
AcceptedSample ==
    /\ trackerVars' # trackerVars \/ ReadStep \/ rx_line' # rx_line
    /\ is_emg_data(rx_line')

\* the visualizer processes a sample line (the line is viz'.rx)
VizSample == viz'.seq # viz.seq

\* ... that carries a rising edge of the muscle state, calibration complete
VizRisingEdge ==
    /\ VizSample
    /\ viz'.calibrated /\ viz'.rx.state > 0 /\ ~viz.prev_muscle_state

Cleared ==
    /\ spike_times = <<>> /\ pending_spike_count = 0 /\ ~action_decided
    /\ hold_key = None /\ ~indefinite_hold

StopState == pressed_keys = {} /\ Cleared

\* time since the first spike of the pending pattern, as line 954 computes it
Elapsed == current_time - first_spike_time

C2_ThreeSpikesStop ==
    [][(Registers /\ Len(onset_hist) = 2
            /\ current_time - onset_hist[1] < SPIKE_WINDOW) => StopState']_vars

\* ------------------------------------------------------------------- C3
\* C3: every 0->1 transition of the state flag between consecutive samples
\* is registered by the classifier exactly once: an update never registers
\* the onset of a snapshot an earlier update has already read, and no
\* snapshot holding an onset that no update has read is overwritten by the
\* next sample while its callback is still waiting.
C3_NoDoubleOnset == Registers => ~edge_seen

C3_NoMissedOnset ==
    ~(/\ ReadStep
      /\ controller_enabled /\ calibrated
      /\ after_queue > 0
      /\ muscle_spiking /\ ~prev_spike_state /\ ~edge_seen)

C3_ExactlyOncePerOnset == [][C3_NoDoubleOnset /\ C3_NoMissedOnset]_vars

\* ------------------------------------------------------------------- C4
\* C4: the command a decision commits depends only on (holding, pending
\* count): holding, 1 -> Left unlocked; holding, >= 2 -> Right unlocked;
\* not holding, 1 -> Forward locked; not holding, >= 2 -> Backward locked;
\* and the committed key is the one key pressed.
C4_Command ==
    IF muscle_holding
    THEN (IF DecisionCount = 1 THEN "a" ELSE "d")
    ELSE (IF DecisionCount = 1 THEN "w" ELSE "s")

C4_DecisionTable ==
    [][Commits =>
         /\ DecisionCount >= 1
         /\ hold_key' = C4_Command
         /\ pressed_keys' = {C4_Command}
         /\ indefinite_hold' = ~muscle_holding]_vars

\* Right has just been committed, unlocked
C4_Witness ==
    /\ hold_key = "d" /\ pressed_keys = {"d"} /\ ~indefinite_hold
    /\ action_decided /\ hold_lock_time = 0 /\ muscle_holding

\* ------------------------------------------------------------------- C5
\* an update with one spike pending and undecided, no new onset, not holding
C5_SingleSpikePending ==
    /\ ClassifierRuns /\ ~Registers
    /\ pending_spike_count = 1 /\ ~action_decided
    /\ ~muscle_holding

C5_ForwardActive == hold_key = "w" /\ pressed_keys = {"w"} /\ indefinite_hold

\* no decision is taken and no key is pressed (an unlocked Left/Right of an
\* earlier pattern may still be released by the end of its hold)
C5_NothingCommitted ==
    /\ ~action_decided' /\ pending_spike_count' = 1
    /\ pressed_keys' \subseteq pressed_keys /\ hold_key' \in {hold_key, None}

\* Forward is kept by every update that registers no onset
C5_ForwardStays ==
    (ClassifierRuns /\ ~Registers /\ pending_spike_count = 0 /\ C5_ForwardActive)
        => C5_ForwardActive'

\* C5 (as stated): after a single spike onset at T, holding false, no further
\* onset: nothing is committed while less than HOLD_DELAY has elapsed since
\* T; Forward is committed at the first update at which HOLD_DELAY has
\* elapsed; Forward then stays the active command at every later update
\* that registers no onset.
C5_ForwardAtHoldDelay ==
    [][/\ (C5_SingleSpikePending /\ Elapsed < HOLD_DELAY) => C5_NothingCommitted
       /\ (C5_SingleSpikePending /\ Elapsed >= HOLD_DELAY) => C5_ForwardActive'
       /\ C5_ForwardStays]_vars

\* C5 (amended): nothing is committed while no more than HOLD_DELAY has
\* elapsed since T (an update exactly HOLD_DELAY after T commits nothing);
\* Forward is committed at the first update at which strictly more than
\* HOLD_DELAY has elapsed; Forward then stays the active command at every
\* later update that registers no onset.
C5_ForwardAfterHoldDelay ==
    [][/\ (C5_SingleSpikePending /\ Elapsed <= HOLD_DELAY) => C5_NothingCommitted
       /\ (C5_SingleSpikePending /\ Elapsed > HOLD_DELAY) => C5_ForwardActive'
       /\ C5_ForwardStays]_vars

\* Forward is active, committed by a decision more than HOLD_DELAY after
\* the spike, and the muscle is at rest
C5_Witness ==
    /\ C5_ForwardActive /\ action_decided /\ pending_spike_count = 0
    /\ first_spike_time < -HOLD_DELAY
    /\ spike_times = <<>> /\ ~muscle_holding /\ controller_enabled

\* ------------------------------------------------------------------- C6
\* Left or Right is the pressed command, unlocked, and nothing is pending
C6_UnlockedTurn ==
    /\ hold_key \in {"a", "d"} /\ pressed_keys = {hold_key}
    /\ ~indefinite_hold /\ hold_lock_time # NoAttr
    /\ pending_spike_count = 0

\* C6: with Left or Right committed unlocked, an update that finds the
\* muscle held HOLD_LOCK_DURATION after the lock timer started locks the
\* command and keeps it pressed; an update that finds the hold released
\* before the command is locked releases it to Idle (no key pressed, hold
\* key None, not locked).
C6_LockOrRelease ==
    [][/\ (ClassifierRuns /\ ~Registers /\ C6_UnlockedTurn /\ muscle_holding
              /\ current_time - hold_lock_time >= HOLD_LOCK_DURATION)
          => (indefinite_hold' /\ hold_key' = hold_key /\ pressed_keys' = pressed_keys)
       /\ (ClassifierRuns /\ ~Registers /\ C6_UnlockedTurn /\ ~muscle_holding)
          => (pressed_keys' = {} /\ hold_key' = None /\ ~indefinite_hold')]_vars

\* ------------------------------------------------------------------- C7
\* instant of the spike onset (line 1)
ScnOnset == UPDATE_INTERVAL

\* first sample instant strictly later than HOLD_DELAY after the onset
ScnCommit == ScnOnset + UPDATE_INTERVAL * ((HOLD_DELAY \div UPDATE_INTERVAL) + 1)

\* first sample instant at least HOLD_LOCK_DURATION after the commit
ScnLock ==
    ScnCommit + UPDATE_INTERVAL
                  * ((HOLD_LOCK_DURATION + UPDATE_INTERVAL - 1) \div UPDATE_INTERVAL)

\* C7 (as stated): spike onset at t = 0.00, holding from t = 0.10, no
\* further spike, updates at 10 Hz: the command is Left from t = 0.25
\* (HOLD_DELAY after the onset), no command before, and it is locked from
\* t = 0.85 (HOLD_DELAY + HOLD_LOCK_DURATION after the onset), not before.
C7_LeftAt025LockedAt085 ==
    (ScnSettled /\ scn_fed >= 2) =>
        /\ pressed_keys = (IF scn_time >= ScnOnset + HOLD_DELAY THEN {"a"} ELSE {})
        /\ indefinite_hold <=> scn_time >= ScnOnset + HOLD_DELAY + HOLD_LOCK_DURATION

\* C7 (amended): in the same scenario the command is Left from the update
\* at t = 0.30 (the first update strictly later than HOLD_DELAY after the
\* onset), no command before, and it is locked from the update at t = 0.90
\* (the first update at least HOLD_LOCK_DURATION after the update that
\* took the decision), not before.
C7_LeftAt030LockedAt090 ==
    (ScnSettled /\ scn_fed >= 2) =>
        /\ pressed_keys = (IF scn_time >= ScnCommit THEN {"a"} ELSE {})
        /\ hold_key = (IF scn_time >= ScnCommit THEN "a" ELSE None)
        /\ indefinite_hold <=> scn_time >= ScnLock

\* Left is locked, at the update 0.90 s after the onset
C7_Witness ==
    /\ scn_time = ScnLock /\ ScnSettled
    /\ hold_key = "a" /\ pressed_keys = {"a"} /\ indefinite_hold
    /\ hold_lock_time = -HOLD_LOCK_DURATION /\ muscle_holding

\* ------------------------------------------------------------------- C8
\* C8: while calibration is not complete, a classifier update presses and
\* releases no key and leaves spike window, pending count, first-spike
\* time, decided flag, hold key, lock flag and lock timer unchanged,
\* whatever edges the samples contain, also when the controller was
\* enabled uncalibrated.
C8_UncalibratedNoOp ==
    [][(MapStep /\ ~calibrated) => UNCHANGED <<keyVars, patternVars>>]_vars

\* an enabled, uncalibrated update has read a spike onset and done nothing
C8_Witness ==
    /\ ~calibrated /\ controller_enabled /\ edge_seen
    /\ muscle_spiking /\ ~prev_spike_state
    /\ spike_times = <<>> /\ pending_spike_count = 0 /\ pressed_keys = {}

\* ------------------------------------------------------------------- C9
\* C9: a RESET or CALIBRATE request returns the tracker to Uncalibrated
\* (calibrated is false after it), and a sample with a threshold above 0
\* makes it calibrated again.
C9_ResetUncalibrates ==
    [][/\ (ser_out' # ser_out /\ ser_out' \in {"RESET", "CALIBRATE"}) => ~calibrated'
       /\ (hold_threshold' > 0) => calibrated']_vars

\* ------------------------------------------------------------------ C10
C10_StopStep ==
    /\ Registers
    /\ StopTriggered(Prune(Append(spike_times, current_time), current_time, SPIKE_WINDOW))

C10_DisconnectStep == connected /\ ~connected'

C10_DisableStep == controller_enabled /\ ~controller_enabled'

\* C10: a Stop, a disconnect and a disabling of the controller each leave
\* spike window empty, pending count 0, decided flag false, hold key None
\* and lock flag false, in the same step.
C10_CancelClears ==
    [][(C10_StopStep \/ C10_DisconnectStep \/ C10_DisableStep) => Cleared']_vars

\* ------------------------------------------------------------------ C11
\* C11: processing a sample whose state flag is active leaves the tracked
\* baseline as it was (a step that leaves muscle_spiking true is the
\* processing of an active sample, or changes no tracker field); the first
\* sample of a session, which seeds the baseline, has no baseline before.
C11_ActiveKeepsBaseline ==
    [][(muscle_spiking' /\ tracked_baseline # NoAttr)
           => tracked_baseline' = tracked_baseline]_vars

\* an active sample with the envelope above a baseline that relaxed samples
\* have moved off its seed
C11_Witness ==
    /\ Len(rx_line) = 4 /\ rx_line[1] = "20" /\ rx_line[4] = "1"
    /\ muscle_spiking /\ prev_spike_state
    /\ tracked_baseline \notin {NoAttr, 0, 8, 20}

\* ------------------------------------------------------------------ C12
\* the update registers an onset that completes no triple, with a command
\* active
C12_NewPatternStarts == Registers /\ ~C10_StopStep /\ pressed_keys # {}

\* the update waits on a pending decision, with a command active
C12_PatternPending ==
    /\ ClassifierRuns /\ ~Registers
    /\ pending_spike_count > 0 /\ ~action_decided /\ pressed_keys # {}

\* the update reads the end of the hold of an unlocked Left/Right
C12_HoldEnds ==
    /\ hold_key \in {"a", "d"} /\ ~indefinite_hold
    /\ ~muscle_holding /\ prev_hold_state

C13_PendingAtMostTwo ==
    /\ [](pending_spike_count \in 0..2 /\ Len(spike_times) <= 2)
    /\ [][C10_StopStep => (spike_times' = <<>> /\ pending_spike_count' = 0
                              /\ ~action_decided')]_vars

\* Stop has fired on the third onset of a pattern whose first onset is
\* less than HOLD_DELAY old: nothing pending, nothing decided, no command
C13_Witness ==
    /\ first_spike_time > -HOLD_DELAY
    /\ pending_spike_count = 0 /\ ~action_decided /\ spike_times = <<>>
    /\ hold_key = None /\ pressed_keys = {}
    /\ muscle_spiking /\ ~prev_spike_state /\ edge_seen

\* ------------------------------------------------------------------ C14
\* the line read in this step (a line that differs from the one before it)
C14_LineRead == rx_line' # rx_line

\* exactly four fields, each of them text that float() reads
C14_FourNumbers ==
    Len(rx_line) = 4 /\ \A i \in 1..4 : rx_line[i] \in NumberText \cup NonFiniteText

\* C14: a received line that is not exactly four comma-separated fields all
\* parseable as numbers leaves baseline, thresholds, calibrated,
\* spiking/holding and their previous values unchanged and schedules no
\* classifier update.
C14_MalformedDiscarded ==
    [][(C14_LineRead /\ ~C14_FourNumbers')
           => UNCHANGED <<trackerVars, after_queue>>]_vars

\* a line with a field that is no number was read first in the session,
\* controller enabled: no baseline, not calibrated, nothing scheduled
C14_Witness ==
    /\ rx_line = <<"8", "abc", "10", "1">>
    /\ controller_enabled /\ after_queue = 0
    /\ tracked_baseline = NoAttr /\ ~calibrated /\ ~muscle_spiking

\* ------------------------------------------------------------------ C15
\* C15: a sample line with a non-finite numeric field (nan, inf) is
\* rejected like an unparsable one: it changes no tracker state and
\* schedules no classifier update.
C15_NonFiniteRejected ==
    [][(C14_LineRead /\ \E i \in DOMAIN rx_line' : rx_line'[i] \in NonFiniteText)
           => UNCHANGED <<trackerVars, after_queue>>]_vars

\* ------------------------------------------------------------------ C16
\* C16: each classifier update observes the tracker state of exactly one
\* sample, its own: no sample is processed while the callback of an earlier
\* sample is still waiting (that callback would read the later sample's
\* state), and no update runs with the callback of a later sample already
\* waiting behind it.
C16_OneSnapshotPerUpdate ==
    [][/\ (ReadStep /\ calibrated) => after_queue = 0
       /\ ClassifierRuns => after_queue = 1]_vars

\* ------------------------------------------------------------------ C17
\* a timestamp stored by an earlier update is later than the clock now: the
\* clock value of this update is earlier than that of the update that
\* stored it
C17_ClockWentBack ==
    \/ first_spike_time > current_time
    \/ hold_lock_time # NoAttr /\ hold_lock_time > current_time
    \/ \E i \in DOMAIN spike_times : spike_times[i] > current_time

\* C17: a classifier update whose clock value is earlier than that of a
\* previous update changes no state: spike window, pending decision, lock
\* state and pressed keys are after the update what they were before it.
C17_BackwardClockAbsorbed ==
    [][(ClassifierRuns /\ C17_ClockWentBack)
           => UNCHANGED <<pressed_keys, spike_times, pending_spike_count,
                          first_spike_time, action_decided, hold_key,
                          indefinite_hold, hold_lock_time>>]_vars

\* ------------------------------------------------------------------ C18
\* the end of a hold, as the update reads it
C18_HoldEnd == ~muscle_holding /\ prev_hold_state

\* C18: at the end of every classifier update an unlocked Left/Right that
\* is the pressed command has the muscle held; the update that reads the
\* end of the hold leaves no unlocked Left/Right behind (key released, hold
\* key cleared); a locked Left/Right is not released by the end of a hold.
C18_UnlockedOnlyWhileHeld ==
    [][/\ ClassifierRuns
          => ((hold_key' \in {"a", "d"} /\ pressed_keys' = {hold_key'}
                  /\ ~indefinite_hold') => muscle_holding)
       /\ (ClassifierRuns /\ C18_HoldEnd /\ hold_key \in {"a", "d"}
              /\ ~indefinite_hold)
          => (hold_key' \notin {"a", "d"} /\ pressed_keys' \cap {"a", "d"} = {})
       /\ (ClassifierRuns /\ ~Registers /\ pending_spike_count = 0 /\ C18_HoldEnd
              /\ hold_key \in {"a", "d"} /\ indefinite_hold)
          => UNCHANGED <<pressed_keys, hold_key, indefinite_hold>>]_vars

\* ------------------------------------------------------------------ C19
\* the update marks Left/Right locked
C19_Locks ==
    /\ ClassifierRuns
    /\ ~indefinite_hold /\ indefinite_hold' /\ hold_key' \in {"a", "d"}

\* C19: Left/Right becomes locked only with the muscle held and only while
\* that key is the pressed command; never after the key was released.
C19_LocksOnlyPressedKey ==
    [][C19_Locks => (muscle_holding /\ pressed_keys' = {hold_key'})]_vars

\* ------------------------------------------------------------------ C20
\* the update registers the first onset of a pending run: the onset turns a
\* decided or empty pending state into an undecided one
C20_RunStarts ==
    /\ Registers /\ ~C10_StopStep
    /\ (action_decided \/ pending_spike_count = 0)

\* the update registers a later onset of a run that is pending
C20_RunGoesOn ==
    /\ Registers /\ ~C10_StopStep
    /\ ~action_decided /\ pending_spike_count > 0

\* C20: first_spike_time is set to the time of the first onset of each
\* pending run and later onsets of the run leave it as it is; no decision
\* is taken in the update that registers the first onset of a run, and none
\* less than HOLD_DELAY after first_spike_time.
C20_FirstSpikeTimePerRun ==
    [][/\ C20_RunStarts => (first_spike_time' = current_time /\ ~action_decided')
       /\ C20_RunGoesOn => first_spike_time' = first_spike_time
       /\ Commits => current_time - first_spike_time' >= HOLD_DELAY]_vars

\* ------------------------------------------------------------------ C21
\* the number of onsets the window holds once this update has registered its
\* own: the new onset and every earlier one less than SPIKE_WINDOW old
C21_Fresh ==
    Cardinality({i \in DOMAIN spike_times :
                    current_time - spike_times[i] < SPIKE_WINDOW}) + 1

\* C21: the spike window is pruned with the strict test age < 0.5 s at every
\* registration: an onset exactly 0.5 s old is dropped.  The count an update
\* works with is the new onset plus the earlier ones strictly younger than
\* 0.5 s; with a count of 1 the onset starts a run of its own
\* (first_spike_time is its time), and Stop is taken exactly when the count
\* reaches three, so a first and third onset exactly 0.5 s apart give no Stop.
C21_StrictWindow ==
    [][Registers =>
          IF C21_Fresh >= STOP_SPIKES
          THEN StopState'
          ELSE /\ ~StopState'
               /\ \/ pending_spike_count' = C21_Fresh /\ ~action_decided'
                  \/ pending_spike_count' = 0 /\ action_decided'
               /\ first_spike_time' =
                      IF C21_Fresh = 1 THEN current_time ELSE first_spike_time]_vars

\* Left is held, committed 0.2 s ago, so its onset is 0.5 s old or older; the
\* onset just registered is alone in the window and starts a new run
C21_Witness ==
    /\ hold_key = "a" /\ "a" \in pressed_keys /\ ~indefinite_hold
    /\ hold_lock_time = -4
    /\ spike_times = <<current_time>>
    /\ pending_spike_count = 1 /\ ~action_decided
    /\ first_spike_time = current_time

\* ------------------------------------------------------------------ C22
\* the update commits nothing: no onset is read and no decision is pending
C22_NoDecision == ClassifierRuns /\ ~Registers /\ pending_spike_count = 0

\* C22: one update takes its steps in the order registration and Stop check,
\* decision, lock check, hold-release check.  A Stop leaves the cleared state
\* whatever the later steps would have done; an onset that makes the count
\* two with HOLD_DELAY already elapsed is committed in the same update, with
\* the count that includes it; a Left/Right committed in an update is not
\* locked in it; and an update that finds the lock duration reached and the
\* end of the hold releases the command and does not lock it.
C22_StepOrder ==
    /\ [][Registers /\ C21_Fresh >= STOP_SPIKES => StopState']_vars
    /\ [][Registers /\ C21_Fresh = 2 /\ Elapsed > HOLD_DELAY =>
             /\ action_decided' /\ pending_spike_count' = 0
             /\ pressed_keys' = {DecisionKey(muscle_holding, 2)}
             /\ hold_key' = DecisionKey(muscle_holding, 2)]_vars
    /\ [][Commits /\ muscle_holding =>
             ~indefinite_hold' /\ hold_lock_time' = current_time]_vars
    /\ [][/\ C22_NoDecision
          /\ hold_key \in {"a", "d"} /\ ~indefinite_hold
          /\ hold_lock_time # NoAttr
          /\ current_time - hold_lock_time >= HOLD_LOCK_DURATION
          /\ ~muscle_holding /\ prev_hold_state
          => /\ hold_key' = None /\ pressed_keys' = {}
             /\ ~indefinite_hold' /\ ~action_decided']_vars

\* the second onset of a run has been read more than HOLD_DELAY after the
\* first and Right is committed by the update that read it
C22_Witness ==
    /\ hold_key = "d" /\ pressed_keys = {"d"} /\ ~indefinite_hold
    /\ hold_lock_time = current_time
    /\ Len(spike_times) = 2 /\ spike_times[2] = current_time
    /\ action_decided /\ pending_spike_count = 0

\* ------------------------------------------------------------------ C23
\* the spike window as the decision branch of this update finds it
C23_Window ==
    IF Registers
    THEN SelectSeq(spike_times, LAMBDA t : current_time - t < SPIKE_WINDOW)
             \o <<current_time>>
    ELSE spike_times

C25_CalibratesOnce ==
    /\ [][(AcceptedSample /\ ~calibrated /\ Sample(rx_line').thr > 0)
             => /\ calibrated'
                /\ calibration_logs' = calibration_logs + 1
                /\ hold_threshold' = HoldThreshold(Sample(rx_line').thr)]_vars
    /\ [][(~calibrated /\ calibrated')
             => AcceptedSample /\ Sample(rx_line').thr > 0]_vars
    /\ [][calibrated
             => calibrated' /\ calibration_logs' = calibration_logs]_vars
    /\ [](calibration_logs = IF calibrated THEN 1 ELSE 0)

\* samples without a threshold came first, then the sample that calibrates
C25_Witness ==
    /\ Len(rx_line) = 4 /\ rx_line[3] = "10"
    /\ calibrated /\ calibration_logs = 1
    /\ hold_threshold = HoldThreshold(10)
    /\ tracked_baseline \notin {NoAttr, 0, 8, 20}

\* ------------------------------------------------------------------ C26
\* C26: after every accepted sample processed once calibration is complete,
\* the hold threshold is 0.4 times the thresholdDeviation of that sample.
C26_HoldThresholdFollows ==
    [][(AcceptedSample /\ calibrated')
          => hold_threshold' = HoldThreshold(Sample(rx_line').thr)]_vars

\* ------------------------------------------------------------------ C27
\* C27: after every accepted sample that leaves no positive
\* thresholdDeviation in effect (calibration never completed, or the sample
\* carries a threshold of 0), the hold threshold is 0 and holding is false.
C27_NoThresholdNoHold ==
    [][(AcceptedSample /\ (~calibrated' \/ Sample(rx_line').thr <= 0))
          => hold_threshold' = 0 /\ ~muscle_holding']_vars

\* ------------------------------------------------------------------ C28
\* C28: after every accepted sample, spiking is true exactly when the
\* sample's state flag is > 0, and holding is true exactly when the hold
\* threshold is > 0 and |raw envelope - baseline| >= hold threshold, with
\* the baseline as refreshed by that sample; neither value depends on the
\* other.
C28_SpikingAndHolding ==
    [][AcceptedSample =>
          /\ muscle_spiking' = (Sample(rx_line').state > 0)
          /\ muscle_holding' =
                (/\ hold_threshold' > 0
                 /\ Abs(Sample(rx_line').env - tracked_baseline')
                        >= hold_threshold')]_vars

\* a relaxed sample whose envelope lies exactly the hold threshold away from
\* the baseline it has refreshed: holding without spiking
C28_Witness ==
    /\ Len(rx_line) = 4 /\ rx_line[4] = "0"
    /\ ~muscle_spiking /\ muscle_holding
    /\ tracked_baseline # NoAttr
    /\ Abs(FloatValue[rx_line[1]] - tracked_baseline) = hold_threshold

\* ------------------------------------------------------------------ C29
\* the smallest and the largest envelope value accepted so far
C29_EnvMin == CHOOSE m \in env_seen : \A x \in env_seen : m <= x
C29_EnvMax == CHOOSE m \in env_seen : \A x \in env_seen : x <= m

\* the baseline a session starts from: the envelope of its first sample
C29_Seeded ==
    IF tracked_baseline = NoAttr THEN Sample(rx_line').env ELSE tracked_baseline

C30_ReachesCleanup == ClassifierRuns /\ ~(Registers /\ C21_Fresh >= STOP_SPIKES)

\* C30: at the end of every classifier update the spike window holds at most
\* 2 timestamps, in non-decreasing order, and after an update that reaches
\* the cleanup step none of them is 2.0 s old or older.
C30_WindowBounded ==
    [][ClassifierRuns =>
          /\ Len(spike_times') <= 2
          /\ \A i, j \in DOMAIN spike_times' :
                 i < j => spike_times'[i] <= spike_times'[j]
          /\ C30_ReachesCleanup =>
                 \A i \in DOMAIN spike_times' :
                     current_time - spike_times'[i] < CLEANUP_WINDOW]_vars

\* ------------------------------------------------------------------ C24
\* a decision is pending and undecided, calibrated and enabled
C24_Pending ==
    /\ pending_spike_count > 0 /\ ~action_decided
    /\ controller_enabled /\ calibrated

\* a commit or a Stop has ended the pending decision
C24_Resolved == pending_spike_count = 0

\* C24 as stated: with samples arriving and time advancing for ever, every
\* undecided pending decision is eventually resolved by a commit or a Stop.
C24_EventuallyResolved == C24_Pending ~> C24_Resolved

\* C24, amended: no classifier update leaves a decision pending whose first
\* spike time is more than HOLD_DELAY old, and with samples arriving and time
\* advancing for ever a pending decision older than HOLD_DELAY is eventually
\* resolved or restarted by an onset that is alone in the spike window
\* (first_spike_time is the time of that onset).
C24_ResolvedOrRestarted ==
    /\ [][(ClassifierRuns /\ pending_spike_count' > 0)
             => /\ ~action_decided'
                /\ current_time - first_spike_time' <= HOLD_DELAY]_vars
    /\ (C24_Pending /\ Elapsed > HOLD_DELAY)
           ~> (C24_Resolved \/ (pending_spike_count = 1 /\ Elapsed = 0))

\* Forward has been committed by an update that found one pending spike
\* older than HOLD_DELAY
C24_Witness ==
    /\ controller_enabled /\ calibrated
    /\ C24_Resolved /\ action_decided
    /\ hold_key = "w" /\ pressed_keys = {"w"}
    /\ first_spike_time = -(HOLD_DELAY + 1)

C34_BookkeepingAgrees ==
    /\ hold_key # None => pressed_keys = {hold_key}
    /\ hold_key = None => pressed_keys = {}
    /\ indefinite_hold => pressed_keys # {}
    /\ current_direction = None <=> pressed_keys = {}
    /\ \A k \in pressed_keys : current_direction = Upper[k]

\* ------------------------------------------------------------------ C32
\* C32: a key is down at the keyboard only if it is recorded in
\* pressed_keys, so that no key stays down after its release and no two keys
\* are down together, whatever the interleaving of the key-repeat threads
\* with the operations of the GUI thread.
C32_DownOnlyIfRecorded ==
    keys_down \subseteq pressed_keys /\ Cardinality(keys_down) <= 1

\* ------------------------------------------------------------------ C36
\* C36: in the visualizer a rising edge of the muscle state, calibration
\* complete, sets the command to DOWN exactly when a previous rising edge
\* has been counted and lies less than 1.0 s back, and to UP otherwise; a
\* DOWN resets the counter, so the rising edge that follows a double spike
\* gives UP; no command is shown before calibration is complete.
C36_UpDown ==
    /\ [][VizRisingEdge =>
             viz'.current_command =
                 IF /\ viz.spike_count > 0
                    /\ current_time - viz.last_spike_time < VIZ_DOUBLE_WINDOW
                 THEN "DOWN" ELSE "UP"]_vars
    /\ [][(VizRisingEdge /\ viz'.current_command = "DOWN")
             => viz'.spike_count = 0]_vars
    /\ [][(/\ VizRisingEdge
           /\ viz.current_command = "DOWN"
           /\ viz.command_display_time = viz.last_spike_time)
             => viz'.current_command = "UP"]_vars
    /\ [](~viz.calibrated => viz.current_command = "IDLE")

\* a double spike has just been recognized
C36_Witness ==
    /\ viz.calibrated /\ viz.current_command = "DOWN"
    /\ viz.command_display_time = current_time /\ viz.spike_count = 0

\* ------------------------------------------------------------------ C37
\* C37: a recognized command is transient: a sample without a rising edge
\* resets the displayed command to IDLE exactly when more than 2.0 s have
\* passed since the command was recognized, and nothing else resets it.
C37_IdleAfterDisplayTime ==
    /\ [][(VizSample /\ ~VizRisingEdge /\ viz.current_command # "IDLE")
             => viz'.current_command =
                    IF current_time - viz.command_display_time > VIZ_DISPLAY_TIME
                    THEN "IDLE" ELSE viz.current_command]_vars
    /\ [][(viz.current_command # "IDLE" /\ viz'.current_command = "IDLE")
             => /\ VizSample /\ ~VizRisingEdge
                /\ current_time - viz.command_display_time > VIZ_DISPLAY_TIME]_vars

\* a command recognized more than 2.0 s ago is still shown: no sample has
\* come since the 2.0 s passed
C37_Witness ==
    /\ viz.current_command = "UP"
    /\ viz.command_display_time = -(VIZ_DISPLAY_TIME + 1)

\* ------------------------------------------------------------------ C33
\* C33: a command is committed only in response to a spike onset registered
\* since the controller was last enabled: while the controller is enabled
\* and no onset has been registered since, no key is pressed, and no update
\* locks a command.
C33_NothingBeforeNewOnset ==
    /\ [](controller_enabled /\ ~fresh_onset => pressed_keys = {})
    /\ [][(ClassifierRuns /\ ~fresh_onset /\ ~Registers)
             => ~(indefinite_hold' /\ ~indefinite_hold)]_vars

\* C35: signal inversion is display-only: a run with invert_signal set and a
\* run without it, fed the same samples and the same operations, have the
\* same baseline, spiking, holding and calibrated values (the whole tracker
\* state) and the same pressed keys and controller state after every step,
\* hence the same sequence of key presses and releases.
C35_InversionDisplayOnly == twin.tr = Tracker /\ twin.ctl = Ctl

\* the second run is inverted and shows an envelope below zero, the baseline
\* has moved, and a key is pressed
C35_Witness ==
    /\ twin.invert_signal /\ twin.envelope < 0
    /\ tracked_baseline > 0
    /\ calibrated /\ pressed_keys # {}

====
